---------------------------- MODULE Spec2Model ----------------------------
(***************************************************************************)
(* Model of src/app.py: the conversational BI front end.  One turn is one  *)
(* call of process_and_display_prompt (model call, optional warehouse      *)
(* query, rendering, history append); the clear button is the other        *)
(* handler.  The external model, the warehouse and the chart widget are    *)
(* inputs chosen nondeterministically from bounded sets.                   *)
(*                                                                         *)
(* Representation.  A Python value is a record [t, s, rows]: t is its type *)
(* ("null", "str", "list"), s the parts of a string (an f-string is the    *)
(* concatenation of its parts), rows the row dicts of a list.  A text (a   *)
(* model reply, a json.dumps output, a chat entry) is a sequence of        *)
(* lexemes [ch, key, val]: the characters "{" and "}", a JSON member "m"   *)
(* (key and value), a JSON scalar "1", or a word of prose "p".  A dict is  *)
(* the sequence of its members in insertion order.                         *)
(***************************************************************************)
EXTENDS Integers, Sequences, FiniteSets, TLC

VARIABLES
    messages,         \* st.session_state.messages
    history_for_api,  \* st.session_state.history_for_api
    prompt_in,        \* the prompt of the last turn
    llm_exc,          \* the exception the last turn's model call raised
    response_text,    \* completion.choices[0].message.content of the last turn
    response_data,    \* what get_assistant_response returned in the last turn
    llm_messages,     \* the messages argument of the last model call
    llm_calls,        \* model calls issued by the last turn
    bq_calls,         \* warehouse calls issued by the last turn
    bq_sql,           \* the argument of the last turn's client_bq.query
    bq_result,        \* what the warehouse did in the last turn
    shown,            \* the widgets the last turn put on the page, in order
    metric,           \* the arguments of the last turn's st.metric
    raised,           \* the exception that left process_and_display_prompt
    lastOp,           \* the handler that ran last
    prevOp,           \* the handler that ran before it
    dropped,          \* whether the clear just before removed any entry
    first_fresh,      \* repeat runs: the first question of the run and its answer
    parts,            \* parser runs: the prose before, the object, the prose after
    cleaned_text      \* parser runs: what clean_json_from_string returned

vars == <<messages, history_for_api, prompt_in, llm_exc, response_text,
          response_data, llm_messages, llm_calls, bq_calls, bq_sql, bq_result,
          shown, metric, raised, lastOp, prevOp, dropped, first_fresh, parts,
          cleaned_text>>

(***************************************************************************)
(* Bounds                                                                  *)
(***************************************************************************)
\* a turn starts only below these lengths of messages and of history_for_api
MaxMessages == 3

MaxHistory == 4

\* the rows and columns of a warehouse result
MaxRows == 2

MaxCols == 3

\* the lexemes of prose before and after the object of a reply
MaxProse == 2

(***************************************************************************)
(* Python values                                                           *)
(***************************************************************************)
None == [t |-> "null", s |-> <<>>, rows |-> <<>>]

Str(x) == [t |-> "str", s |-> <<x>>, rows |-> <<>>]

FString(ps) == [t |-> "str", s |-> ps, rows |-> <<>>]

List(r) == [t |-> "list", s |-> <<>>, rows |-> r]

\* a number, named by its digits; NaN is the number "nan"
Num(x) == [t |-> "num", s |-> <<x>>, rows |-> <<>>]

NaN == Num("nan")

\* str(v) inside an f-string
StrOf(v) ==
    CASE v.t = "str" -> v.s
      [] v.t = "num" -> v.s
      [] v.t = "null" -> <<"None">>
      [] OTHER -> <<"[", "]">>

\* Python truthiness of a value: None, "" and [] are falsy
Truthy(v) ==
    CASE v.t = "str" -> v.s # <<>> /\ v.s # <<"">>
      [] v.t = "list" -> v.rows # <<>>
      [] v.t = "num" -> v.s # <<"0">>
      [] OTHER -> FALSE

(***************************************************************************)
(* Texts                                                                   *)
(***************************************************************************)
LB == [ch |-> "{", key |-> "", val |-> None]

RB == [ch |-> "}", key |-> "", val |-> None]

Word(w) == [ch |-> "p", key |-> w, val |-> None]

Scalar == [ch |-> "1", key |-> "", val |-> None]

Member(k, v) == [ch |-> "m", key |-> k, val |-> v]

\* str.find: the lowest 0-based index of c, or -1
find(text, c) ==
    IF \E i \in 1..Len(text) : text[i].ch = c
    THEN (CHOOSE i \in 1..Len(text) :
              /\ text[i].ch = c
              /\ \A j \in 1..(i - 1) : text[j].ch # c) - 1
    ELSE -1

\* str.rfind: the highest 0-based index of c, or -1
rfind(text, c) ==
    IF \E i \in 1..Len(text) : text[i].ch = c
    THEN (CHOOSE i \in 1..Len(text) :
              /\ text[i].ch = c
              /\ \A j \in (i + 1)..Len(text) : text[j].ch # c) - 1
    ELSE -1

\* text[a:b] for 0 <= a
Slice(text, a, b) == SubSeq(text, a + 1, IF b > Len(text) THEN Len(text) ELSE b)

\* mutant: the first "}" ends the slice, not the last
clean_json_first_close(text) ==
    LET start_index == find(text, "{")
        end_index == find(text, "}")
    IN  IF start_index # -1 /\ end_index # -1
        THEN Slice(text, start_index, end_index + 1)
        ELSE text

clean_json_from_string(text) ==
    LET start_index == find(text, "{")
        end_index == rfind(text, "}")
    IN  IF start_index # -1 /\ end_index # -1
        THEN Slice(text, start_index, end_index + 1)
        ELSE text

(***************************************************************************)
(* Dicts and json                                                          *)
(***************************************************************************)
HasKey(d, k) == \E i \in 1..Len(d) : d[i].key = k

\* d[k]; the caller has checked HasKey(d, k), a missing key is a KeyError
Item(d, k) == d[CHOOSE i \in 1..Len(d) : d[i].key = k].val

\* d.get(k, default)
Get(d, k, default) == IF HasKey(d, k) THEN Item(d, k) ELSE default

\* d[k] = v: a new key is appended, a known key keeps its place
SetItem(d, k, v) ==
    IF HasKey(d, k)
    THEN [i \in 1..Len(d) |-> IF d[i].key = k THEN Member(k, v) ELSE d[i]]
    ELSE Append(d, Member(k, v))

RECURSIVE DictOf(_)
\* the dict of a sequence of members: of a repeated key the last value is kept
DictOf(ms) ==
    IF ms = <<>> THEN <<>>
    ELSE LET n == Len(ms)
         IN  SetItem(DictOf(SubSeq(ms, 1, n - 1)), ms[n].key, ms[n].val)

\* json.loads: exc is "JSONDecodeError" or "none"; a document that is one
\* scalar loads to a value that is no dict
json_loads(text) ==
    LET n == Len(text)
    IN  IF n = 1 /\ text[1].ch = "1"
        THEN [exc |-> "none", isdict |-> FALSE, d |-> <<>>]
        ELSE IF /\ n >= 2
                /\ text[1].ch = "{"
                /\ text[n].ch = "}"
                /\ \A i \in 2..(n - 1) : text[i].ch = "m"
        THEN [exc |-> "none", isdict |-> TRUE, d |-> DictOf(SubSeq(text, 2, n - 1))]
        ELSE [exc |-> "JSONDecodeError", isdict |-> FALSE, d |-> <<>>]

\* json.dumps of a dict
json_dumps(d) == <<LB>> \o d \o <<RB>>

\* the characters of a text inside an f-string
TextStr(text) ==
    [i \in 1..Len(text) |->
        IF text[i].ch \in {"p", "m"} THEN text[i].key ELSE text[i].ch]

(***************************************************************************)
(* Data frames: columns is the sequence of column names, data the rows,    *)
(* each the sequence of its cells' values                                  *)
(***************************************************************************)
Frame(cols, data) == [columns |-> cols, data |-> data]

shape0(df) == Len(df.data)

shape1(df) == Len(df.columns)

\* DataFrame.empty: an axis of length 0
empty(df) == shape0(df) = 0 \/ shape1(df) = 0

\* DataFrame.astype(str)
astype_str(df) ==
    Frame(df.columns,
          [i \in 1..shape0(df) |->
              [j \in 1..shape1(df) |-> FString(StrOf(df.data[i][j]))]])

\* DataFrame.to_dict('records'): one dict per row
to_dict_records(df) ==
    [i \in 1..shape0(df) |->
        [j \in 1..shape1(df) |-> Member(df.columns[j], df.data[i][j])]]

RECURSIVE KeysInto(_, _)
\* the keys of dict d appended to cols, those cols holds already left out
KeysInto(cols, d) ==
    IF d = <<>> THEN cols
    ELSE LET k == d[1].key
             rest == SubSeq(d, 2, Len(d))
         IN  IF \E i \in 1..Len(cols) : cols[i] = k
             THEN KeysInto(cols, rest)
             ELSE KeysInto(Append(cols, k), rest)

RECURSIVE ColumnsOf(_)
\* the columns of pd.DataFrame(records): the keys in order of first appearance
ColumnsOf(records) ==
    IF records = <<>> THEN <<>>
    ELSE LET n == Len(records)
         IN  KeysInto(ColumnsOf(SubSeq(records, 1, n - 1)), records[n])

\* pd.DataFrame(records) for a list of dicts; a key a row lacks is NaN
DataFrame(records) ==
    LET cols == ColumnsOf(records)
    IN  Frame(cols,
              [i \in 1..Len(records) |->
                  [j \in 1..Len(cols) |-> Get(records[i], cols[j], NaN)]])

\* float(x) succeeds on these strings
IsNumeric(x) == x \in {"1234.5", "7"}

\* pd.to_numeric(df[col], errors='coerce') stored back into df[col]
coerce_numeric(df, col) ==
    Frame(df.columns,
          [i \in 1..shape0(df) |->
              [j \in 1..shape1(df) |->
                  IF df.columns[j] # col THEN df.data[i][j]
                  ELSE IF Len(df.data[i][j].s) = 1 /\ IsNumeric(df.data[i][j].s[1])
                       THEN Num(df.data[i][j].s[1])
                       ELSE NaN]])

(***************************************************************************)
(* The back end: get_assistant_response                                    *)
(***************************************************************************)
Entry(role, content) == [role |-> role, content |-> content]

SYSTEM_INSTRUCTION == <<Word("SYSTEM_INSTRUCTION")>>

NoFrame == Frame(<<>>, <<>>)

\* the warehouse was not asked
NoQuery == [exc |-> "none", df |-> NoFrame]

\* {"action": "ERROR", "content": f"..."}
ErrorEnvelope(ps) ==
    <<Member("action", Str("ERROR")), Member("content", FString(ps))>>

\* the messages of the model call: system, the history, the question
build_messages(user_prompt, history_list) ==
    <<Entry("system", SYSTEM_INSTRUCTION)>>
        \o history_list
        \o <<Entry("user", <<Word(user_prompt)>>)>>

\* client_bq.query(sql).to_dataframe(): the warehouse's answer bq, or an
\* error of its own when the query is no string
run_query(sql_query, bq) ==
    IF sql_query.t = "str" THEN bq
    ELSE [exc |-> "BadRequest", df |-> NoFrame]

\* mutant: a failed query is passed off as a result without rows
execute_branch_swallow(response_json, bq) ==
    LET sql_query == Get(response_json, "content", None)
        res == run_query(sql_query, bq)
        df_results == IF empty(res.df) THEN res.df ELSE astype_str(res.df)
    IN  [bq_calls |-> 1, bq_sql |-> sql_query, bq_result |-> res,
         ret |-> <<Member("action", Str("DATA")),
                   Member("content", List(to_dict_records(df_results))),
                   Member("query_used", sql_query),
                   Member("display_format",
                          Get(response_json, "display_format", Str("number"))),
                   Member("chart_type", Get(response_json, "chart_type", Str("bar")))>>]

\* the EXECUTE branch: the query, then the DATA envelope or the error
execute_branch(response_json, bq) ==
    LET sql_query == Get(response_json, "content", None)
        display_format == Get(response_json, "display_format", Str("number"))
        chart_type == Get(response_json, "chart_type", Str("bar"))
        res == run_query(sql_query, bq)
        df_results == IF empty(res.df) THEN res.df ELSE astype_str(res.df)
    IN  [bq_calls |-> 1, bq_sql |-> sql_query, bq_result |-> res,
         ret |-> IF res.exc # "none"
                 THEN ErrorEnvelope(<<"Ocorreu um erro tecnico: ", res.exc>>)
                 ELSE <<Member("action", Str("DATA")),
                        Member("content", List(to_dict_records(df_results))),
                        Member("query_used", sql_query),
                        Member("display_format", display_format),
                        Member("chart_type", chart_type)>>]

\* mutant: a reply that is no JSON is passed on as a clarification
dispatch_reply_lenient(text, bq) ==
    LET loaded == json_loads(clean_json_from_string(text))
        nothing == [bq_calls |-> 0, bq_sql |-> None, bq_result |-> NoQuery]
    IN  IF ~loaded.isdict
        THEN nothing @@
             [ret |-> <<Member("action", Str("CLARIFY")),
                        Member("content", FString(TextStr(text)))>>]
        ELSE IF Get(loaded.d, "action", None) = Str("EXECUTE")
        THEN execute_branch(loaded.d, bq)
        ELSE nothing @@ [ret |-> loaded.d]

\* what the function does with the model's reply text
dispatch_reply(text, bq) ==
    LET cleaned_reply == clean_json_from_string(text)
        loaded == json_loads(cleaned_reply)
        nothing == [bq_calls |-> 0, bq_sql |-> None, bq_result |-> NoQuery]
    IN  IF loaded.exc = "JSONDecodeError"
        THEN nothing @@
             [ret |-> ErrorEnvelope(<<"Erro ao decodificar JSON do Llama: '">>
                                    \o TextStr(text) \o <<"'">>)]
        ELSE IF ~loaded.isdict
        THEN nothing @@
             [ret |-> ErrorEnvelope(<<"Ocorreu um erro tecnico: ", "AttributeError">>)]
        ELSE IF Get(loaded.d, "action", None) = Str("EXECUTE")
        THEN execute_branch(loaded.d, bq)
        ELSE nothing @@ [ret |-> loaded.d]

\* llm is what the model call does (a reply text or an exception), bq what
\* the warehouse does if it is asked
get_assistant_response(user_prompt, history_list, llm, bq) ==
    LET sent == build_messages(user_prompt, history_list)
        out == IF llm.exc # "none"
               THEN [bq_calls |-> 0, bq_sql |-> None, bq_result |-> NoQuery,
                     ret |-> ErrorEnvelope(<<"Ocorreu um erro tecnico: ", llm.exc>>)]
               ELSE dispatch_reply(llm.text, bq)
    IN  out @@ [llm_messages |-> sent, llm_calls |-> 1, llm_exc |-> llm.exc,
                response_text |-> llm.text]

(***************************************************************************)
(* The front end: the rendering of a result                                *)
(***************************************************************************)
\* s.replace("_", " ").title() on the warehouse's column names
title(name) ==
    CASE name = "brand_name" -> "Brand Name"
      [] name = "total_revenue" -> "Total Revenue"
      [] name = "items" -> "Items"
      [] name = "orders" -> "Orders"
      [] name = "users" -> "Users"
      [] OTHER -> name

\* f"{float(x):,.2f}", character by character
format_fixed2(x) ==
    CASE x = "1234.5" -> <<"1", ",", "2", "3", "4", ".", "5", "0">>
      [] x = "7" -> <<"7", ".", "0", "0">>
      [] OTHER -> <<x>>

\* f"{float(x):,}", character by character
format_grouped(x) ==
    CASE x = "1234.5" -> <<"1", ",", "2", "3", "4", ".", "5">>
      [] x = "7" -> <<"7", ".", "0">>
      [] OTHER -> <<x>>

\* str.replace for one-character strings
replace(chars, old, new) ==
    [i \in 1..Len(chars) |-> IF chars[i] = old THEN new ELSE chars[i]]

\* mutant: the swap without the placeholder turns every separator into ","
swap_without_placeholder(chars) == replace(replace(chars, ",", "."), ".", ",")

\* the swap of the separators: "," to "X", "." to ",", "X" to "."
swap_separators(chars) == replace(replace(replace(chars, ",", "X"), ".", ","), "X", ".")

currency_symbol(display_format) ==
    CASE display_format = Str("currency_brl") -> <<"R", "$", " ">>
      [] display_format = Str("currency_usd") -> <<"$", " ">>
      [] display_format = Str("currency_eur") -> <<"EUR", " ">>  \* the euro sign
      [] OTHER -> <<>>

\* the text of the KPI: the number formatted, or str(kpi_value) when
\* float(kpi_value) raises
format_kpi(kpi_value, display_format) ==
    IF Len(kpi_value.s) = 1 /\ IsNumeric(kpi_value.s[1])
    THEN LET x == kpi_value.s[1]
         IN  IF display_format = Str("percentage")
             THEN swap_separators(format_fixed2(x) \o <<"%">>)
             ELSE IF display_format \in
                        {Str("currency_brl"), Str("currency_usd"), Str("currency_eur")}
             THEN currency_symbol(display_format) \o swap_separators(format_fixed2(x))
             ELSE format_grouped(x)
    ELSE StrOf(kpi_value)

NoMetric == [label |-> "", value |-> <<>>, kpi_value |-> None]

\* mutant: the two-column case is forgotten
is_kpi_one_column(df) == shape0(df) = 1 /\ shape1(df) = 1

\* the KPI test of the renderer
is_kpi(df) == shape0(df) = 1 /\ (shape1(df) = 1 \/ shape1(df) = 2)

\* the KPI branch: the widgets and the arguments of st.metric
render_kpi(df, display_format) ==
    LET two == shape1(df) = 2
        kpi_label == IF two THEN df.columns[1] ELSE title(df.columns[1])
        kpi_value == IF two THEN df.data[1][2] ELSE df.data[1][1]
    IN  [shown |-> <<"markdown:Metrica Principal">>
                   \o (IF two THEN <<"markdown:label">> ELSE <<>>)
                   \o <<"metric">>,
         metric |-> [label |-> kpi_label,
                     value |-> format_kpi(kpi_value, display_format),
                     kpi_value |-> kpi_value],
         df |-> df, raised |-> "none"]

\* the st.info of the chart type, if it has one
chart_info(chart_type) ==
    CASE chart_type = Str("line") -> <<"info:Tendencia Temporal">>
      [] chart_type = Str("pie") -> <<"info:Distribuicao">>
      [] chart_type = Str("scatter") -> <<"info:Dispersao">>
      [] OTHER -> <<>>

\* the table and chart branch; chart_ok is whether st_echarts returns
render_chart(df, chart_type, chart_ok) ==
    LET table == <<"markdown:Dados", "dataframe", "markdown:Visualizacao">>
    IN  IF shape1(df) = 0
        THEN [shown |-> table, metric |-> NoMetric, df |-> df,
              raised |-> "IndexError"]
        ELSE LET y_col == IF shape1(df) > 1 THEN df.columns[2] ELSE df.columns[1]
             IN  [shown |-> table \o chart_info(chart_type)
                            \o (IF chart_ok THEN <<"st_echarts">>
                                ELSE <<"warning:Erro visualizacao">>),
                  metric |-> NoMetric,
                  df |-> coerce_numeric(df, y_col),
                  raised |-> "none"]

(***************************************************************************)
(* The front end: process_and_display_prompt                               *)
(***************************************************************************)
\* the rows of a frame as csv: the header, then the cells of each row
RECURSIVE csv_rows(_)
csv_rows(data) ==
    IF data = <<>> THEN <<>>
    ELSE [j \in 1..Len(data[1]) |-> StrOf(data[1][j])[1]]
             \o <<"\n">> \o csv_rows(SubSeq(data, 2, Len(data)))

HeadRows == 30

\* df.head(30).to_csv(index=False)
to_csv_head(df) ==
    df.columns \o <<"\n">>
        \o csv_rows(SubSeq(df.data, 1,
                           IF shape0(df) > HeadRows THEN HeadRows ELSE shape0(df)))

\* the hidden history entry of a data turn
data_result_entry(df) ==
    Entry("assistant",
          json_dumps(<<Member("action", Str("DATA_RESULT")),
                       Member("context",
                              FString(<<"O grafico foi gerado. Dados resultantes: ">>
                                      \o to_csv_head(df)))>>))

\* lines 204-325: the widgets of a result; bound says whether df was assigned
render_result(rd, chart_ok) ==
    LET unbound == [shown |-> <<>>, metric |-> NoMetric, df |-> NoFrame,
                    raised |-> "none", bound |-> FALSE]
    IN  IF ~HasKey(rd, "content")
        THEN [unbound EXCEPT !.raised = "KeyError"]
        ELSE LET data_content == Item(rd, "content")
                 display_format == Get(rd, "display_format", Str("number"))
                 chart_type == Get(rd, "chart_type", Str("bar"))
             IN  IF ~Truthy(data_content)
                 THEN [unbound EXCEPT
                          !.shown = <<"warning:A consulta rodou, mas nao retornou resultados.">>]
                 ELSE IF data_content.t # "list"
                 THEN [unbound EXCEPT !.raised = "ValueError"]
                 ELSE LET df == DataFrame(data_content.rows)
                      IN  (IF is_kpi(df)
                           THEN render_kpi(df, display_format)
                           ELSE render_chart(df, chart_type, chart_ok))
                          @@ [bound |-> TRUE]

\* the DATA branch, lines 203-346: what it leaves in messages, in
\* history_for_api and on the page, and the exception it ends with
data_branch(rd, chart_ok, msgs, hist) ==
    LET r == render_result(rd, chart_ok)
        base == [messages |-> msgs, history |-> hist, shown |-> r.shown,
                 metric |-> r.metric, raised |-> r.raised]
    IN  IF r.raised # "none"
        THEN base
        ELSE IF ~HasKey(rd, "query_used")
        THEN [base EXCEPT !.shown = r.shown \o <<"expander">>,
                          !.raised = "KeyError"]
        ELSE LET said == [base EXCEPT
                            !.shown = r.shown \o <<"expander", "code">>,
                            !.messages = Append(msgs,
                                Entry("assistant", Str("[Exibindo dados e graficos]")))]
             IN  IF ~r.bound
                 THEN [said EXCEPT !.raised = "UnboundLocalError"]
                 ELSE IF ~empty(r.df)
                 THEN [said EXCEPT !.history = Append(hist, data_result_entry(r.df))]
                 ELSE said

\* lines 196-351: the branch on the action of the envelope
action_branch(rd, chart_ok, msgs, hist) ==
    LET action == Get(rd, "action", None)
        base == [messages |-> msgs, history |-> hist, shown |-> <<>>,
                 metric |-> NoMetric, raised |-> "none"]
    IN  IF action = Str("CLARIFY")
        THEN IF ~HasKey(rd, "content")
             THEN [base EXCEPT !.raised = "KeyError"]
             ELSE [base EXCEPT
                      !.shown = <<"markdown:assistant">>,
                      !.messages = Append(msgs,
                          Entry("assistant", Item(rd, "content")))]
        ELSE IF action = Str("DATA")
        THEN data_branch(rd, chart_ok, msgs, hist)
        ELSE [base EXCEPT
                 !.shown = <<"error">>,
                 !.messages = Append(msgs,
                     Entry("assistant",
                           FString(<<"Ocorreu um erro: ">>
                                   \o StrOf(Get(rd, "content", None)))))]

\* lines 353-356: the history append that ends a turn no exception ended
append_history(prompt, rd, hist) ==
    hist \o <<Entry("user", <<Word(prompt)>>),
              Entry("assistant", json_dumps(rd))>>

\* one turn: the new session state, the page, and what was observed
process_and_display_prompt(prompt, llm, bq, chart_ok, msgs, hist) ==
    LET msgs1 == Append(msgs, Entry("user", Str(prompt)))
        g == get_assistant_response(prompt, hist, llm, bq)
        b == action_branch(g.ret, chart_ok, msgs1, hist)
    IN  [messages |-> b.messages,
         history |-> IF b.raised = "none"
                     THEN append_history(prompt, g.ret, b.history)
                     ELSE b.history,
         shown |-> <<"markdown:user">> \o b.shown,
         metric |-> b.metric,
         raised |-> b.raised,
         g |-> g]

(***************************************************************************)
(* The inputs: questions, model replies, warehouse results                 *)
(***************************************************************************)
Prompts == {"q1", "q2"}

ColNames == <<"brand_name", "total_revenue", "items", "orders", "users">>

\* the series column is the second column, or the only one
BqCell(j, ncols, ykind) ==
    IF j = (IF ncols > 1 THEN 2 ELSE 1)
    THEN (IF ykind = "num" THEN Num("1234.5") ELSE Str("abc"))
    ELSE IF j = 1 THEN Str("acme") ELSE Num("7")

BqFrame(nrows, ncols, ykind) ==
    Frame(SubSeq(ColNames, 1, ncols),
          [i \in 1..nrows |-> [j \in 1..ncols |-> BqCell(j, ncols, ykind)]])

\* what the warehouse may do: raise, or return a frame
BqOutcomes ==
    {[exc |-> "BadRequest", df |-> NoFrame]}
        \cup {[exc |-> "none", df |-> BqFrame(r, c, k)] :
                  r \in 0..MaxRows, c \in 1..MaxCols, k \in {"num", "str"}}

SqlText == Str("SELECT 1")

\* envelopes the system instruction asks for
ExecutePlain == <<Member("action", Str("EXECUTE")), Member("content", SqlText)>>

ExecutePercentLine ==
    ExecutePlain \o <<Member("display_format", Str("percentage")),
                      Member("chart_type", Str("line"))>>

Clarify == <<Member("action", Str("CLARIFY")), Member("content", Str("Which year?"))>>

\* envelopes it does not ask for
ClarifyNoContent == <<Member("action", Str("CLARIFY"))>>

UnknownAction == <<Member("action", Str("FOO")), Member("content", Str("bar"))>>

NoAction == <<Member("content", Str("bar"))>>

ForgedRow == <<Member("brand_name", Str("acme")), Member("total_revenue", Str("7"))>>

ForgedData(rows) ==
    <<Member("action", Str("DATA")), Member("content", List(rows)),
      Member("query_used", Str("DROP TABLE"))>>

Envelopes ==
    {ExecutePlain, ExecutePercentLine, Clarify, ClarifyNoContent,
     UnknownAction, NoAction, ForgedData(<<ForgedRow>>), ForgedData(<<>>),
     ForgedData(<< <<>> >>)}

\* the reply texts: an envelope bare, an envelope in a code fence, and
\* texts that hold no JSON object
Replies ==
    {json_dumps(e) : e \in Envelopes}
        \cup {<<Word("fence json")>> \o json_dumps(e) \o <<Word("fence")>> :
                  e \in {ExecutePlain, Clarify}}
        \cup {<<Word("Sorry")>>,
              <<Scalar>>,
              <<LB, Member("action", Str("CLARIFY"))>>,
              <<Word("see"), RB>>,
              <<LB, Word("action"), RB>>}

\* what the model call may do: raise, or return a reply text
LlmOutcomes ==
    {[exc |-> "APIConnectionError", text |-> <<>>]}
        \cup {[exc |-> "none", text |-> t] : t \in Replies}

\* whether the reply makes get_assistant_response ask the warehouse
asks_warehouse(llm) ==
    /\ llm.exc = "none"
    /\ LET loaded == json_loads(clean_json_from_string(llm.text))
       IN  loaded.isdict /\ Get(loaded.d, "action", None) = Str("EXECUTE")

\* whether the turn reaches the try block around st_echarts
draws_chart(llm, bq) ==
    LET t == process_and_display_prompt("q1", llm, bq, TRUE, <<>>, <<>>)
    IN  \E i \in 1..Len(t.shown) : t.shown[i] = "st_echarts"

\* what the outside world may do in one turn: the model call, the warehouse
\* if it is asked, and st_echarts if it is called
TurnInputs ==
    {<<llm, bq, chart_ok>> \in LlmOutcomes \X (BqOutcomes \cup {NoQuery}) \X BOOLEAN :
        /\ (bq = NoQuery) = ~asks_warehouse(llm)
        /\ ~chart_ok => draws_chart(llm, bq)}

(***************************************************************************)
(* The session                                                             *)
(***************************************************************************)
NoParts == [pre |-> <<>>, obj |-> <<>>, post |-> <<>>]

NotAsked == [asked |-> FALSE, prompt |-> "", ret |-> <<>>]

\* the session when the script first runs: both logs empty, no turn seen
SessionStart ==
    /\ messages = <<>>
    /\ history_for_api = <<>>
    /\ prompt_in = ""
    /\ llm_exc = "none"
    /\ response_text = <<>>
    /\ response_data = <<>>
    /\ llm_messages = <<>>
    /\ llm_calls = 0
    /\ bq_calls = 0
    /\ bq_sql = None
    /\ bq_result = NoQuery
    /\ shown = <<>>
    /\ metric = NoMetric
    /\ raised = "none"
    /\ lastOp = "init"
    /\ prevOp = "init"
    /\ dropped = FALSE
    /\ first_fresh = NotAsked

Init ==
    /\ SessionStart
    /\ parts = NoParts
    /\ cleaned_text = <<>>

\* one call of process_and_display_prompt: the session state it leaves and
\* what the turn was seen to do
TurnStep(prompt, in) ==
    \E t \in {process_and_display_prompt(prompt, in[1], in[2], in[3],
                                         messages, history_for_api)} :
        /\ messages' = t.messages
        /\ history_for_api' = t.history
        /\ prompt_in' = prompt
        /\ llm_exc' = t.g.llm_exc
        /\ response_text' = t.g.response_text
        /\ response_data' = t.g.ret
        /\ llm_messages' = t.g.llm_messages
        /\ llm_calls' = t.g.llm_calls
        /\ bq_calls' = t.g.bq_calls
        /\ bq_sql' = t.g.bq_sql
        /\ bq_result' = t.g.bq_result
        /\ shown' = t.shown
        /\ metric' = t.metric
        /\ raised' = t.raised
        /\ lastOp' = "turn"
        /\ prevOp' = lastOp
        /\ dropped' = (lastOp = "clear" /\ dropped)

\* a sidebar button or the chat input
Turn ==
    /\ Len(messages) < MaxMessages
    /\ Len(history_for_api) < MaxHistory
    /\ \E prompt \in Prompts, in \in TurnInputs : TurnStep(prompt, in)
    /\ UNCHANGED <<first_fresh, parts, cleaned_text>>

\* mutant: the clear button forgets the model-bound history
ClearMessagesOnly ==
    /\ messages' = <<>>
    /\ prompt_in' = ""
    /\ llm_exc' = "none"
    /\ response_text' = <<>>
    /\ response_data' = <<>>
    /\ llm_messages' = <<>>
    /\ llm_calls' = 0
    /\ bq_calls' = 0
    /\ bq_sql' = None
    /\ bq_result' = NoQuery
    /\ shown' = <<>>
    /\ metric' = NoMetric
    /\ raised' = "none"
    /\ lastOp' = "clear"
    /\ prevOp' = lastOp
    /\ dropped' = (messages # <<>> \/ history_for_api # <<>>)
    /\ UNCHANGED <<history_for_api, first_fresh, parts, cleaned_text>>

\* the clear button: both logs emptied, then st.rerun() draws the page anew
Clear ==
    /\ messages' = <<>>
    /\ history_for_api' = <<>>
    /\ prompt_in' = ""
    /\ llm_exc' = "none"
    /\ response_text' = <<>>
    /\ response_data' = <<>>
    /\ llm_messages' = <<>>
    /\ llm_calls' = 0
    /\ bq_calls' = 0
    /\ bq_sql' = None
    /\ bq_result' = NoQuery
    /\ shown' = <<>>
    /\ metric' = NoMetric
    /\ raised' = "none"
    /\ lastOp' = "clear"
    /\ prevOp' = lastOp
    /\ dropped' = (messages # <<>> \/ history_for_api # <<>>)
    /\ UNCHANGED <<first_fresh, parts, cleaned_text>>

Next == Turn \/ Clear

Spec == Init /\ [][Next]_vars

(***************************************************************************)
(* Repeat runs: every question is asked of an empty session (a fresh one,  *)
(* or right after the clear button), and the first question of the run and *)
(* the envelope it got are remembered                                      *)
(***************************************************************************)
FreshTurn ==
    /\ messages = <<>>
    /\ history_for_api = <<>>
    /\ \E prompt \in Prompts, in \in TurnInputs :
        /\ TurnStep(prompt, in)
        /\ first_fresh' = IF first_fresh.asked THEN first_fresh
                          ELSE [asked |-> TRUE, prompt |-> prompt,
                                ret |-> response_data']
    /\ UNCHANGED <<parts, cleaned_text>>

NextRepeat == FreshTurn \/ Clear

SpecRepeat == Init /\ [][NextRepeat]_vars

(***************************************************************************)
(* Parser runs: a reply made of prose, one JSON object, prose; the only    *)
(* step applies clean_json_from_string to it                               *)
(***************************************************************************)
ProseLexemes == {Word("Here is the JSON"), Word("fence"), LB, RB}

RECURSIVE TextsUpTo(_)
\* the texts of at most n prose lexemes
TextsUpTo(n) ==
    IF n = 0 THEN {<<>>}
    ELSE TextsUpTo(n - 1)
             \cup {Append(t, x) : t \in TextsUpTo(n - 1), x \in ProseLexemes}

ObjectTexts == {json_dumps(e) : e \in {<<>>, Clarify, ExecutePercentLine}}

RawText == parts.pre \o parts.obj \o parts.post

InitParse ==
    /\ SessionStart
    /\ parts \in [pre : TextsUpTo(MaxProse), obj : ObjectTexts,
                  post : TextsUpTo(MaxProse)]
    /\ cleaned_text = <<>>

CleanStep ==
    /\ lastOp = "init"
    /\ response_text' = RawText
    /\ cleaned_text' = clean_json_from_string(RawText)
    /\ lastOp' = "clean"
    /\ UNCHANGED <<messages, history_for_api, prompt_in, llm_exc, response_data,
                   llm_messages, llm_calls, bq_calls, bq_sql, bq_result, shown,
                   metric, raised, prevOp, dropped, first_fresh, parts>>

NextParse == CleanStep

SpecParse == InitParse /\ [][NextParse]_vars

(***************************************************************************)
(* Format runs: one question whose EXECUTE reply names a display format    *)
(* and a chart type, answered by any warehouse outcome                     *)
(***************************************************************************)
DisplayFormats ==
    {"number", "percentage", "currency_brl", "currency_usd", "currency_eur"}

ChartTypes == {"bar", "line", "pie", "scatter"}

ExecuteWith(display_format, chart_type) ==
    ExecutePlain \o <<Member("display_format", Str(display_format)),
                      Member("chart_type", Str(chart_type))>>

FormatInputs ==
    {<<llm, bq, chart_ok>> \in
         {[exc |-> "none", text |-> json_dumps(ExecuteWith(d, c))] :
              d \in DisplayFormats, c \in ChartTypes}
         \X BqOutcomes \X BOOLEAN :
        ~chart_ok => draws_chart(llm, bq)}

FormatTurn ==
    /\ lastOp = "init"
    /\ \E in \in FormatInputs : TurnStep("q1", in)
    /\ UNCHANGED <<first_fresh, parts, cleaned_text>>

NextFormat == FormatTurn

SpecFormat == Init /\ [][NextFormat]_vars

(***************************************************************************)
(* Views of a turn that the properties share                               *)
(***************************************************************************)
TurnDone == lastOp = "turn"

\* the action of an envelope, None when it has none
ActionOf(envelope) == Get(envelope, "action", None)

Shows(widget) == \E i \in 1..Len(shown) : shown[i] = widget

\* what json.loads made of the reply the model sent in the last turn
ModelEnvelope == json_loads(clean_json_from_string(response_text))

ModelSentDict == TurnDone /\ llm_exc = "none" /\ ModelEnvelope.isdict

\* the last two entries of history_for_api are the turn's question and envelope
HistoryEndsWithTurn ==
    LET n == Len(history_for_api)
    IN  /\ n >= 2
        /\ history_for_api[n - 1] = Entry("user", <<Word(prompt_in)>>)
        /\ history_for_api[n] = Entry("assistant", json_dumps(response_data))

\* the last entry of the message log is an assistant message
AssistantSpoke ==
    /\ messages # <<>>
    /\ messages[Len(messages)].role = "assistant"

(***************************************************************************)
(* C1: no exception leaves process_and_display_prompt: whatever the model  *)
(* and the warehouse do, the turn ends without an exception, with an       *)
(* assistant message in the log.  The code raises on a query that returns  *)
(* no rows (df is read unassigned) and on a CLARIFY envelope without       *)
(* content.                                                                *)
(***************************************************************************)
C1_NoExceptionEscapes == TurnDone => raised = "none" /\ AssistantSpoke

(***************************************************************************)
(* C2: every turn, whatever its outcome, extends history_for_api with the  *)
(* user's question and the serialized envelope of the turn, after what the *)
(* history held before.  A turn that an exception ends appends nothing.    *)
(***************************************************************************)
C2_HistoryExtended ==
    [][lastOp' = "turn" =>
        /\ Len(history_for_api') >= Len(history_for_api) + 2
        /\ SubSeq(history_for_api', 1, Len(history_for_api)) = history_for_api
        /\ HistoryEndsWithTurn']_vars

(***************************************************************************)
(* C3: a question asked again with the same history is answered from a     *)
(* cache: the same envelope as the first time, no model call and no        *)
(* warehouse call.  Checked in repeat runs, where every question meets an  *)
(* empty history; get_assistant_response keeps no cache and calls the      *)
(* model every time.                                                       *)
(***************************************************************************)
C3_RepeatIsCached ==
    [][(/\ lastOp' = "turn"
        /\ first_fresh.asked
        /\ prompt_in' = first_fresh.prompt)
       => (/\ llm_calls' = 0
           /\ bq_calls' = 0
           /\ response_data' = first_fresh.ret)]_vars

(***************************************************************************)
(* C4: the clear button leaves the message log and the model-bound history *)
(* both empty, and the model call of the question asked right after it     *)
(* receives the system instruction and that question, nothing else.        *)
(***************************************************************************)
C4_ClearEmptiesBoth ==
    /\ lastOp = "clear" => messages = <<>> /\ history_for_api = <<>>
    /\ (TurnDone /\ prevOp = "clear") =>
           llm_messages = <<Entry("system", SYSTEM_INSTRUCTION),
                            Entry("user", <<Word(prompt_in)>>)>>

\* a question asked right after a clear that removed entries
C4_Witness == TurnDone /\ prevOp = "clear" /\ dropped /\ llm_calls = 1

(***************************************************************************)
(* C5: an EXECUTE envelope sends its content to the warehouse exactly      *)
(* once; a successful query gives a DATA envelope whose content is the     *)
(* returned rows (cell by cell, as strings) and whose query_used is the    *)
(* model's SQL; a failed query gives an ERROR envelope whose message       *)
(* includes the warehouse's error, and the query is not sent again.        *)
(***************************************************************************)
ModelAskedExecute == ModelSentDict /\ ActionOf(ModelEnvelope.d) = Str("EXECUTE")

\* the rows of the envelope are the rows the warehouse returned
CarriesRows(content, df) ==
    /\ content.t = "list"
    /\ Len(content.rows) = shape0(df)
    /\ \A i \in 1..shape0(df) :
        /\ Len(content.rows[i]) = shape1(df)
        /\ \A j \in 1..shape1(df) :
            /\ content.rows[i][j].key = df.columns[j]
            /\ content.rows[i][j].val.t = "str"
            /\ content.rows[i][j].val.s = StrOf(df.data[i][j])

C5_ExecuteOnce ==
    ModelAskedExecute =>
        /\ bq_calls = 1
        /\ bq_sql = Get(ModelEnvelope.d, "content", None)
        /\ IF bq_result.exc = "none"
           THEN /\ ActionOf(response_data) = Str("DATA")
                /\ CarriesRows(Get(response_data, "content", None), bq_result.df)
                /\ Get(response_data, "query_used", None)
                       = Get(ModelEnvelope.d, "content", None)
           ELSE /\ ActionOf(response_data) = Str("ERROR")
                /\ LET msg == Get(response_data, "content", None).s
                   IN  \E i \in 1..Len(msg) : msg[i] = bq_result.exc

\* a query that returned two rows
C5_Witness ==
    /\ ModelAskedExecute
    /\ bq_result.exc = "none"
    /\ shape0(bq_result.df) = 2
    /\ ActionOf(response_data) = Str("DATA")

(***************************************************************************)
(* C6: an envelope handled as DATA was built by get_assistant_response     *)
(* after a successful warehouse query; an envelope the model itself marked *)
(* DATA is never rendered as data.  The code passes the model's envelope   *)
(* through unchanged, so a model-made DATA envelope is rendered.           *)
(***************************************************************************)
RenderedAsData == Shows("metric") \/ Shows("dataframe") \/ Shows("code")

C6_DataOnlyAfterQuery ==
    /\ (TurnDone /\ ActionOf(response_data) = Str("DATA")) =>
           bq_calls = 1 /\ bq_result.exc = "none"
    /\ (ModelSentDict /\ ActionOf(ModelEnvelope.d) = Str("DATA")) =>
           ~RenderedAsData

(***************************************************************************)
(* C7: a model envelope whose action is neither CLARIFY nor EXECUTE is     *)
(* rewritten to ERROR: the returned envelope and the one serialized into   *)
(* history_for_api have action ERROR, and an error message is shown.  The  *)
(* code returns and stores the model's envelope as it came.                *)
(***************************************************************************)
C7_UnknownActionRewritten ==
    (/\ ModelSentDict
     /\ ActionOf(ModelEnvelope.d) \notin {Str("CLARIFY"), Str("EXECUTE")})
    => (/\ ActionOf(response_data) = Str("ERROR")
        /\ HistoryEndsWithTurn
        /\ Shows("error"))

(***************************************************************************)
(* C8: a reply text without "{" or without "}" gives an envelope with      *)
(* action ERROR, no exception, and the envelope is shown as an error       *)
(* message.                                                                *)
(***************************************************************************)
LacksBrace(text) == find(text, "{") = -1 \/ find(text, "}") = -1

C8_NoBraceIsError ==
    (TurnDone /\ llm_exc = "none" /\ LacksBrace(response_text)) =>
        /\ ActionOf(response_data) = Str("ERROR")
        /\ raised = "none"
        /\ Shows("error")
        /\ AssistantSpoke
        /\ HistoryEndsWithTurn

\* a reply that opens an object and never closes it
C8_Witness ==
    /\ TurnDone
    /\ llm_exc = "none"
    /\ find(response_text, "{") # -1
    /\ find(response_text, "}") = -1
    /\ Shows("error")

(***************************************************************************)
(* C9: for a reply made of one well-formed JSON object with prose before   *)
(* and after it, clean_json_from_string returns exactly the object, so     *)
(* json.loads gives the envelope of the object.  As claimed, the prose may *)
(* hold braces of its own; the code slices from the first "{" to the last  *)
(* "}" of the whole text, so the claim holds when the prose before holds   *)
(* no "{" and the prose after holds no "}".                                *)
(***************************************************************************)
CleanGivesObject ==
    /\ cleaned_text = parts.obj
    /\ json_loads(cleaned_text) = json_loads(parts.obj)

C9_AnyProse == lastOp = "clean" => CleanGivesObject

C9_ProseWithoutOuterBraces ==
    (/\ lastOp = "clean"
     /\ find(parts.pre, "{") = -1
     /\ find(parts.post, "}") = -1)
    => CleanGivesObject

\* prose on both sides, a "}" before the object and a "{" after it
C9_Witness ==
    /\ lastOp = "clean"
    /\ find(parts.pre, "{") = -1
    /\ find(parts.post, "}") = -1
    /\ find(parts.pre, "}") # -1
    /\ find(parts.post, "{") # -1
    /\ Len(parts.obj) > 2
    /\ cleaned_text = parts.obj

(***************************************************************************)
(* C10: a result that is not empty is shown as a single KPI exactly when   *)
(* it has one row and at most two columns, and as the detail table plus a  *)
(* chart attempt otherwise; with two columns the KPI label is the first    *)
(* column and the KPI value is the second column's.  The code's test is    *)
(* one row and one or two columns: a one-row result without columns gets   *)
(* the table, and no chart attempt.                                        *)
(***************************************************************************)
\* the turn went through the renderer with a result that is not empty
ResultRendered ==
    /\ TurnDone
    /\ ActionOf(response_data) = Str("DATA")
    /\ HasKey(response_data, "content")
    /\ Item(response_data, "content").t = "list"
    /\ Truthy(Item(response_data, "content"))

ResultFrame == DataFrame(Item(response_data, "content").rows)

ChartAttempted == Shows("st_echarts") \/ Shows("warning:Erro visualizacao")

KpiLabelAndValue ==
    (shape0(ResultFrame) = 1 /\ shape1(ResultFrame) = 2) =>
        /\ metric.label = ResultFrame.columns[1]
        /\ metric.kpi_value = ResultFrame.data[1][2]

KpiOf1234(display_format) ==
    /\ ResultRendered
    /\ shape0(ResultFrame) = 1
    /\ shape1(ResultFrame) = 1
    /\ ResultFrame.data[1][1] = Str("1234.5")
    /\ Get(response_data, "display_format", None) = Str(display_format)

C11_KpiTextDotDecimal ==
    /\ KpiOf1234("percentage") =>
           metric.value = <<"1", ",", "2", "3", "4", ".", "5", "0", "%">>
    /\ KpiOf1234("currency_usd") =>
           metric.value = <<"$", "1", ",", "2", "3", "4", ".", "5", "0">>

C11_KpiTextCommaDecimal ==
    /\ KpiOf1234("percentage") =>
           /\ Shows("metric")
           /\ metric.value = <<"1", ".", "2", "3", "4", ",", "5", "0", "%">>
    /\ KpiOf1234("currency_usd") =>
           /\ Shows("metric")
           /\ metric.value = <<"$", " ", "1", ".", "2", "3", "4", ",", "5", "0">>

\* the KPI of 1234.5 shown as US dollars
C11_Witness ==
    /\ KpiOf1234("currency_usd")
    /\ bq_calls = 1
    /\ Shows("metric")
    /\ metric.label = "Brand Name"

(***************************************************************************)
(* C12: for a result of two or more rows whose series column (the second   *)
(* column, or the only one) holds a value that is not a number, the detail *)
(* table is shown, st_echarts is not called and no error is reported.  The *)
(* code turns such values into NaN and goes on to call st_echarts; when    *)
(* that call fails it shows a warning.                                     *)
(***************************************************************************)
\* the column of the rendered result that the chart takes as its series
SeriesColumn == IF shape1(ResultFrame) > 1 THEN 2 ELSE 1

SeriesNotNumeric ==
    /\ ResultRendered
    /\ shape0(ResultFrame) >= 2
    /\ shape1(ResultFrame) >= 1
    /\ \E i \in 1..shape0(ResultFrame) :
           LET cell == ResultFrame.data[i][SeriesColumn]
           IN  ~(Len(cell.s) = 1 /\ IsNumeric(cell.s[1]))

C12_NoChartForText ==
    SeriesNotNumeric =>
        /\ Shows("dataframe")
        /\ ~ChartAttempted
        /\ ~Shows("error")
        /\ raised = "none"

(***************************************************************************)
(* C13: history_for_api is ordered turn by turn: the entries a turn adds   *)
(* begin with the user entry of its question, and every assistant entry of *)
(* the turn, the DATA_RESULT entry of a data turn included, follows it.    *)
(* The code appends the DATA_RESULT entry inside the DATA branch, before   *)
(* the user entry that the end of the turn appends.                        *)
(***************************************************************************)
C13_UserEntryFirst ==
    [][(lastOp' = "turn" /\ Len(history_for_api') > Len(history_for_api)) =>
        LET n == Len(history_for_api)
        IN  /\ SubSeq(history_for_api', 1, n) = history_for_api
            /\ history_for_api'[n + 1] = Entry("user", <<Word(prompt_in')>>)
            /\ \A i \in (n + 2)..Len(history_for_api') :
                   history_for_api'[i].role = "assistant"]_vars

=============================================================================
